---- MODULE Spec2Model ----
(***************************************************************************)
(* Model of the Koshi Chime sketches for the M5Core2.                      *)
(*                                                                         *)
(*   main  : M5Core2-KoshiChime.ino  (ball physics, 8 rods, 4 chime sets)  *)
(*   p0    : unnamed/part_000        (tilt instrument with note-off table) *)
(*                                                                         *)
(* The sketches compute in IEEE-754 binary32 (float).  A float is carried  *)
(* here as one integer, its bit pattern without the sign bit, negated when *)
(* the sign bit is set: exponent field * 2^23 + fraction.  The order of    *)
(* these integers is the order of the floats, 0 is 0.0f (-0.0f is not      *)
(* told apart from +0.0f; the sketches never divide by a zero), and the    *)
(* operators below round to nearest, ties to even, as the FPU does.        *)
(* millis() readings are unsigned 32-bit: a pair <<high, low>> of 16-bit   *)
(* halves.                                                                 *)
(***************************************************************************)
EXTENDS Integers, Sequences, FiniteSets, TLC

----------------------------------------------------------------------------
(* binary32 arithmetic *)

TwoP12 == 2^12
TwoP20 == 2^20
TwoP21 == 2^21
TwoP23 == 2^23
TwoP25 == 2^25
TwoP26 == 2^26
TwoP27 == 2^27
\* the bit pattern of +infinity
FInf == 255 * TwoP23

RECURSIVE Pow2(_)
Pow2(n) == IF n <= 0 THEN 1 ELSE 2 * Pow2(n - 1)

FAbs(f) == IF f < 0 THEN -f ELSE f
FSign(f) == IF f < 0 THEN -1 ELSE 1

\* exponent field and 24-bit significand of a magnitude (a subnormal has
\* exponent 1 and a significand below 2^23)
FExp(a) == IF a \div TwoP23 = 0 THEN 1 ELSE a \div TwoP23
FSig(a) == IF a \div TwoP23 = 0 THEN a ELSE TwoP23 + (a % TwoP23)

\* q with a last bit set when bits were lost below it (the sticky bit)
Jam(q, lost) == IF lost /\ q % 2 = 0 THEN q + 1 ELSE q

JamBy(s, p) == Jam(s \div p, s % p # 0)

\* s shifted right by n bits, every bit shifted out OR-ed into the last bit
ShiftRightJam(s, n) ==
    IF n <= 0 THEN s
    ELSE IF n >= 30 THEN (IF s = 0 THEN 0 ELSE 1)
    ELSE JamBy(s, Pow2(n))

\* (e, s) with s < 2^27 shifted left until s >= 2^26 or e = 1
RECURSIVE NormLeft(_, _)
NormLeft(e, s) ==
    IF s = 0 \/ s >= TwoP26 \/ e <= 1 THEN <<e, s>>
    ELSE NormLeft(e - 1, 2 * s)

\* round to nearest, ties to even: q with the three bits r below it
RoundEven(q, r) == IF r > 4 \/ (r = 4 /\ q % 2 = 1) THEN q + 1 ELSE q

PackUp(ee, up) ==
    IF ee >= 255 THEN FInf
    ELSE IF (ee - 1) * TwoP23 + up >= FInf THEN FInf
    ELSE (ee - 1) * TwoP23 + up

Pack(ee, sh) == PackUp(ee, RoundEven(sh \div 8, sh % 8))

\* the magnitude s * 2^(e - 153), s < 2^27 carrying three extra bits
\* (guard, round, sticky), rounded to nearest even and packed
RoundPack(e, s) ==
    IF e < 1 THEN Pack(1, ShiftRightJam(s, 1 - e)) ELSE Pack(e, s)

PackPair(n) == RoundPack(n[1], n[2])

\* a 24-bit significand normalised so that subnormals also have bit 23 set
RECURSIVE NormSig(_, _)
NormSig(e, m) ==
    IF m = 0 \/ m >= TwoP23 THEN <<e, m>> ELSE NormSig(e - 1, 2 * m)

FNorm(a) == NormSig(FExp(a), FSig(a))

\* the 48-bit product t2 * 2^24 + low of two 24-bit significands, to 27 bits
MulPack(e, t2, low) ==
    IF t2 >= TwoP23
    THEN RoundPack(e - 126, Jam(t2 * 8 + (low \div TwoP21), low % TwoP21 # 0))
    ELSE RoundPack(e - 127, Jam(t2 * 16 + (low \div TwoP20), low % TwoP20 # 0))

MulCarry(e, hh, t1, c0) ==
    MulPack(e, hh + (t1 \div TwoP12), (t1 % TwoP12) * TwoP12 + c0)

\* the product by 12-bit limbs: a1 * 2^12 + a0 times b1 * 2^12 + b0
MulLimbs(e, a1, a0, b1, b0) ==
    MulCarry(e, a1 * b1, a1 * b0 + a0 * b1 + ((a0 * b0) \div TwoP12),
             (a0 * b0) % TwoP12)

MulNorm(na, nb) ==
    MulLimbs(na[1] + nb[1], na[2] \div TwoP12, na[2] % TwoP12,
             nb[2] \div TwoP12, nb[2] % TwoP12)

FMulMag(a, b) == IF a = 0 \/ b = 0 THEN 0 ELSE MulNorm(FNorm(a), FNorm(b))

FMul(x, y) == FSign(x) * FSign(y) * FMulMag(FAbs(x), FAbs(y))

AddSig(ea, sm) ==
    IF sm >= TwoP27 THEN RoundPack(ea + 1, ShiftRightJam(sm, 1))
    ELSE RoundPack(ea, sm)

\* magnitudes a >= b: a + b
FAddMag(a, b) ==
    AddSig(FExp(a), FSig(a) * 8 + ShiftRightJam(FSig(b) * 8, FExp(a) - FExp(b)))

\* magnitudes a >= b: a - b
FSubMag(a, b) ==
    IF a = b THEN 0
    ELSE PackPair(NormLeft(FExp(a),
                           FSig(a) * 8
                           - ShiftRightJam(FSig(b) * 8, FExp(a) - FExp(b))))

\* hi + lo where |hi| >= |lo|
AddOrdered(hi, lo) ==
    IF FSign(hi) = FSign(lo) THEN FSign(hi) * FAddMag(FAbs(hi), FAbs(lo))
    ELSE FSign(hi) * FSubMag(FAbs(hi), FAbs(lo))

FAdd(x, y) == IF FAbs(x) >= FAbs(y) THEN AddOrdered(x, y) ELSE AddOrdered(y, x)

FSub(x, y) == FAdd(x, -y)

\* n quotient bits of rem / d by long division; <<quotient, remainder>>
RECURSIVE DivBits(_, _, _, _)
DivBits(n, rem, d, q) ==
    IF n = 0 THEN <<q, rem>>
    ELSE IF rem >= d THEN DivBits(n - 1, 2 * (rem - d), d, 2 * q + 1)
    ELSE DivBits(n - 1, 2 * rem, d, 2 * q)

DivPack(e, qr) == RoundPack(e, Jam(qr[1], qr[2] # 0))

DivNorm(na, nb) ==
    IF na[2] < nb[2]
    THEN DivPack(na[1] - nb[1] + 126, DivBits(27, 2 * na[2], nb[2], 0))
    ELSE DivPack(na[1] - nb[1] + 127, DivBits(27, na[2], nb[2], 0))

FDivMag(a, b) ==
    IF a = 0 THEN 0 ELSE IF b = 0 THEN FInf ELSE DivNorm(FNorm(a), FNorm(b))

FDiv(x, y) == FSign(x) * FSign(y) * FDivMag(FAbs(x), FAbs(y))

\* square root digit by digit: k bit pairs of m still to take, then z zero
\* pairs; <<root, remainder>>
RECURSIVE SqrtBits(_, _, _, _, _), SqrtStep(_, _, _, _, _)
SqrtBits(k, z, m, rem, root) ==
    IF k = 0 /\ z = 0 THEN <<root, rem>>
    ELSE IF k > 0
    THEN SqrtStep(k - 1, z, m, 4 * rem + ((m \div Pow2(2 * (k - 1))) % 4), root)
    ELSE SqrtStep(0, z - 1, m, 4 * rem, root)

SqrtStep(k, z, m, r4, root) ==
    IF r4 >= 4 * root + 1
    THEN SqrtBits(k, z, m, r4 - (4 * root + 1), 2 * root + 1)
    ELSE SqrtBits(k, z, m, r4, 2 * root)

SqrtPack(e2, rr) ==
    IF rr[1] >= TwoP25
    THEN RoundPack(139 + (e2 \div 2), Jam(2 * rr[1], rr[2] # 0))
    ELSE RoundPack(138 + (e2 \div 2), Jam(4 * rr[1], rr[2] # 0))

SqrtNorm(n) ==
    IF (n[1] - 150) % 2 # 0
    THEN SqrtPack(n[1] - 151, SqrtBits(13, 13, 2 * n[2], 0, 0))
    ELSE SqrtPack(n[1] - 150, SqrtBits(13, 13, n[2], 0, 0))

\* sqrtf of a value >= 0
FSqrt(x) == IF x <= 0 THEN 0 ELSE SqrtNorm(FNorm(x))

TruncMag(e, m) ==
    IF e < 127 THEN 0
    ELSE IF e <= 150 THEN m \div Pow2(150 - e)
    ELSE m * Pow2(e - 150)

\* (int) of a float: truncation toward zero, |x| < 2^31
FTrunc(x) == FSign(x) * TruncMag(FExp(FAbs(x)), FSig(FAbs(x)))

----------------------------------------------------------------------------
(* unsigned 32-bit millis() readings: <<high half, low half>> *)

TwoP16 == 2^16

U32(n) == <<n \div TwoP16, n % TwoP16>>

\* a + b mod 2^32
U32Add(a, b) ==
    LET lo == a[2] + b[2]
        hi == a[1] + b[1] + (lo \div TwoP16)
    IN  <<hi % TwoP16, lo % TwoP16>>

\* a - b mod 2^32
U32Sub(a, b) ==
    LET lo == a[2] - b[2]
        br == IF lo < 0 THEN 1 ELSE 0
        hi == a[1] - b[1] - br
    IN  <<hi % TwoP16, lo % TwoP16>>

\* a > n for a small n (0 <= n < 2^16)
U32GtSmall(a, n) == a[1] > 0 \/ a[2] > n

U32Less(a, b) == a[1] < b[1] \/ (a[1] = b[1] /\ a[2] < b[2])

\* the sum a + b passes 2^32
U32Carry(a, b) == a[1] + b[1] + ((a[2] + b[2]) \div TwoP16) >= TwoP16

----------------------------------------------------------------------------
(* M5Core2-KoshiChime.ino: configuration *)

\* (float) of an integer, |n| < 2^24
FFromInt(n) ==
    IF n = 0 THEN 0 ELSE FSign(n) * PackPair(NormLeft(150, FAbs(n) * 8))

\* MIDI note numbers of M5UnitSynth
NOTE_G3 == 55
NOTE_A3 == 57
NOTE_B3 == 59
NOTE_C4 == 60
NOTE_D4 == 62
NOTE_E4 == 64
NOTE_F4 == 65
NOTE_G4 == 67
NOTE_A4 == 69
NOTE_B4 == 71
NOTE_C5 == 72
NOTE_D5 == 74
NOTE_E5 == 76
NOTE_F5 == 77
NOTE_G5 == 79
NOTE_A5 == 81
NOTE_B5 == 83
NOTE_C6 == 84

TERRA == 0
AQUA == 1
ARIA == 2
IGNIS == 3

chime_notes ==
    << <<NOTE_G3, NOTE_C4, NOTE_E4, NOTE_G4, NOTE_B4, NOTE_E5, NOTE_G5, NOTE_B5>>,
       <<NOTE_A3, NOTE_D4, NOTE_F4, NOTE_A4, NOTE_C5, NOTE_E5, NOTE_A5, NOTE_C6>>,
       <<NOTE_A3, NOTE_C4, NOTE_E4, NOTE_A4, NOTE_B4, NOTE_E5, NOTE_A5, NOTE_C6>>,
       <<NOTE_G3, NOTE_B3, NOTE_D4, NOTE_G4, NOTE_A4, NOTE_D5, NOTE_G5, NOTE_A5>> >>

CX == 160
CY == 115
TUBE_R == 65
ROD_ORBIT == 55
BALL_R == 10
\* 24.0f
HIT_DIST == 1103101952
ROD_DEBOUNCE == 80
\* 120.0f, 0.97f, 20.0f, 2.0f
GRAVITY_SCALE == 1123024896
FRICTION == 1064849900
MAX_SPEED == 1101004800
ROD_BOUNCE == 1073741824
\* the float literals of loop(): 0.02f, 0.5f, 0.1f, and the ints 2, 5 and 30
\* converted to float by the usual arithmetic conversions
TickScale == 1017370378
WallLoss == 1056964608
MinBounceDist == 1036831949
F2 == 1073741824
F5 == 1084227584
F30 == 1106247680
GlowFrames == 15
COL_ROD == 50712
COL_ROD_GLOW == 65504
\* no drawRod() call for a rod
NotDrawn == "none"

Rods == 0..7

\* setup(): rod_fx[i] = cos(angle) * ROD_ORBIT, rod_fy[i] = sin(angle) *
\* ROD_ORBIT with angle = i * 3.14159f * 2.0f / 8.0f - 3.14159f / 2.0f; the
\* values cosf and sinf return, times 55, as floats
RodFx ==
    << 949105996, 1109102664, 1113325568, 1109102664,
       949105996, -1109102638, -1113325568, -1109102689 >>
RodFy ==
    << -1113325568, -1109102651, 0, 1109102651,
       1113325568, 1109102677, 957494604, -1109102625 >>

----------------------------------------------------------------------------
(* state *)

VARIABLES
    prog,            \* which sketch is flashed: "main", "p0" or "p1"
    \* M5Core2-KoshiChime.ino globals
    current_chime, cal_ax, cal_ay,
    ball_x, ball_y, ball_vx, ball_vy,
    rod_last_hit, rod_glow,
    rod_px, rod_py, rod_fx, rod_fy,
    prev_ball_sx, prev_ball_sy,
    \* part_000 globals
    cylID, prevcylID, activeNotes,
    \* part_001 globals
    lastnote, lastNoteTime,
    shown,           \* the note name getNoteName() returned last
    last_on,         \* <<epoch, millis(), pitch, how many so far>> of the
                     \* latest setNoteOn
    p1_seen,         \* direction and volume of the latest loop()
    \* the environment
    clock,           \* the latest millis() reading
    epoch,           \* how often millis() has wrapped around
    \* what the latest loop() read and did
    inp,             \* its inputs
    notes_out,       \* the synth calls it made, in order
    obs,             \* intermediate values of its physics step
    last_strike,     \* per rod: <<epoch, millis()>> of its latest strike
    ticks, presses, rests

mainVars == <<current_chime, cal_ax, cal_ay, ball_x, ball_y, ball_vx, ball_vy,
              rod_last_hit, rod_glow, rod_px, rod_py, rod_fx, rod_fy,
              prev_ball_sx, prev_ball_sy, last_strike, obs, presses, rests>>
p0Vars == <<cylID, prevcylID, activeNotes>>
p1Vars == <<lastnote, lastNoteTime, shown, last_on, p1_seen>>
vars == <<prog, mainVars, p0Vars, p1Vars, clock, epoch, inp, notes_out, ticks>>

----------------------------------------------------------------------------
(* M5Core2-KoshiChime.ino: loop() *)

\* BtnA: previous chime; BtnC: next chime
\* 'previous' stepping two variants back
PrevChime_Skip(c) == (c + 2) % 4

PrevChime(c) == (c + 3) % 4
NextChime(c) == (c + 1) % 4

\* drawRod(): the colour a rod is drawn in, by its glow counter
RodColour(glow) == IF glow > 0 THEN COL_ROD_GLOW ELSE COL_ROD

\* a redraw that leaves the ball where it is
drawFullScreen_KeepBall(s) ==
    [s EXCEPT !.drawn = [i \in Rods |-> RodColour(s.glow[i])],
              !.psx = CX, !.psy = CY]

\* a redraw that also puts out every rod's glow
drawFullScreen_ClearGlow(s) ==
    [s EXCEPT !.drawn = [i \in Rods |-> COL_ROD],
              !.glow = [i \in Rods |-> 0],
              !.x = 0, !.y = 0, !.vx = 0, !.vy = 0, !.psx = CX, !.psy = CY]

\* drawFullScreen(): redraws every rod, and resets the ball and its drawn
\* position
drawFullScreen(s) ==
    [s EXCEPT !.drawn = [i \in Rods |-> RodColour(s.glow[i])],
              !.x = 0, !.y = 0, !.vx = 0, !.vy = 0, !.psx = CX, !.psy = CY]

OnBtnA(s, in) ==
    IF in.A THEN drawFullScreen([s EXCEPT !.chime = PrevChime(s.chime)]) ELSE s

\* BtnB: the current sensor reading becomes the calibration offset
OnBtnB(s, in) ==
    IF in.B
    THEN drawFullScreen([s EXCEPT !.cal_ax = in.calx, !.cal_ay = in.caly,
                                  !.x = 0, !.y = 0, !.vx = 0, !.vy = 0])
    ELSE s

OnBtnC(s, in) ==
    IF in.C THEN drawFullScreen([s EXCEPT !.chime = NextChime(s.chime)]) ELSE s

Buttons(s, in) == OnBtnC(OnBtnB(OnBtnA(s, in), in), in)

\* the calibration offset added instead of subtracted
TiltX_AddCal(s, in) == FAdd(in.ax, s.cal_ax)

\* 1. the tilt: the sensor reading minus the calibration offset
TiltX(s, in) == FSub(in.ax, s.cal_ax)
TiltY(s, in) == FSub(in.ay, s.cal_ay)

\* an acceleration with the sign of the x tilt turned round
Accelerate_PlusX(s, ax, ay) ==
    [s EXCEPT !.vx = FMul(FAdd(s.vx, FMul(FMul(ax, GRAVITY_SCALE), TickScale)),
                          FRICTION),
              !.vy = FMul(FAdd(s.vy, FMul(FMul(ay, GRAVITY_SCALE), TickScale)),
                          FRICTION)]

\* 2. the velocity: tilt as gravity, then friction
Accelerate(s, ax, ay) ==
    [s EXCEPT !.vx = FMul(FSub(s.vx, FMul(FMul(ax, GRAVITY_SCALE), TickScale)),
                          FRICTION),
              !.vy = FMul(FAdd(s.vy, FMul(FMul(ay, GRAVITY_SCALE), TickScale)),
                          FRICTION)]

\* sqrt(x * x + y * y) in float arithmetic
FHypot(x, y) == FSqrt(FAdd(FMul(x, x), FMul(y, y)))

\* the speed clamp left out
ClampTo_NoClamp(s, speed) == s

ClampTo(s, speed) ==
    IF speed > MAX_SPEED
    THEN [s EXCEPT !.vx = FMul(FDiv(s.vx, speed), MAX_SPEED),
                   !.vy = FMul(FDiv(s.vy, speed), MAX_SPEED)]
    ELSE s

ClampSpeed(s) == ClampTo(s, FHypot(s.vx, s.vy))

\* 3. the position
Move(s) == [s EXCEPT !.x = FAdd(s.x, s.vx), !.y = FAdd(s.y, s.vy)]

max_dist == FFromInt(TUBE_R - BALL_R - 4)

\* a reflection on the wall that loses no energy
ReflectDot_NoLoss(s, nx, ny, dot) ==
    [s EXCEPT !.x = FMul(nx, max_dist),
              !.y = FMul(ny, max_dist),
              !.vx = FSub(s.vx, FMul(FMul(F2, dot), nx)),
              !.vy = FSub(s.vy, FMul(FMul(F2, dot), ny)),
              !.wall_hit = TRUE]

\* the velocity reflected on the wall with normal (nx, ny), and halved
ReflectDot(s, nx, ny, dot) ==
    [s EXCEPT !.x = FMul(nx, max_dist),
              !.y = FMul(ny, max_dist),
              !.vx = FMul(FSub(s.vx, FMul(FMul(F2, dot), nx)), WallLoss),
              !.vy = FMul(FSub(s.vy, FMul(FMul(F2, dot), ny)), WallLoss),
              !.wall_hit = TRUE]

Reflect(s, nx, ny) ==
    ReflectDot(s, nx, ny, FAdd(FMul(s.vx, nx), FMul(s.vy, ny)))

\* the wall constraint left out
ConstrainAt_NoWall(s, dist_from_center) == s

ConstrainAt(s, dist_from_center) ==
    IF dist_from_center > max_dist
    THEN Reflect(s, FDiv(s.x, dist_from_center), FDiv(s.y, dist_from_center))
    ELSE s

\* 4. the tube wall: push back onto the circle, reflect and halve the velocity
Constrain(s) == ConstrainAt(s, FHypot(s.x, s.y))

\* a debounce that lets a rod strike again at exactly ROD_DEBOUNCE ms
Debounced_AtWindow(now, last) ==
    U32GtSmall(U32Sub(now, last), ROD_DEBOUNCE - 1)

\* 5. the rods
Debounced(now, last) == U32GtSmall(U32Sub(now, last), ROD_DEBOUNCE)

\* the cap at 127 left out
Cap127_NoCap(velocity) == velocity

Cap127(velocity) == IF velocity > 127 THEN 127 ELSE velocity

\* (uint8_t)(30 + hit_speed * 5), then capped at 127
NoteVelocity(hit_speed) ==
    Cap127(FTrunc(FAdd(F30, FMul(hit_speed, F5))) % 256)

\* the pitch always read from the first variant's row
ChimeNote_Terra(c, i) == chime_notes[1][i + 1]

ChimeNote(c, i) == chime_notes[c + 1][i + 1]

\* a bounce along the rod-to-ball direction that is not scaled to ROD_BOUNCE
RodBounce_Unscaled(s, dx, dy, d) ==
    IF d > MinBounceDist
    THEN [s EXCEPT !.vx = FDiv(dx, d), !.vy = FDiv(dy, d)]
    ELSE s

\* the velocity after the strike of a rod at distance d, (dx, dy) away
RodBounce(s, dx, dy, d) ==
    IF d > MinBounceDist
    THEN [s EXCEPT !.vx = FMul(FDiv(dx, d), ROD_BOUNCE),
                   !.vy = FMul(FDiv(dy, d), ROD_BOUNCE)]
    ELSE s

\* a strike that leaves the rod's timestamp as it was
StrikeAt_KeepStamp(s, i, now, dx, dy, d, hit_speed) ==
    RodBounce([s EXCEPT !.glow[i] = GlowFrames,
                        !.notes = Append(s.notes,
                                         [rod |-> i,
                                          note |-> ChimeNote(s.chime, i),
                                          velocity |-> NoteVelocity(hit_speed),
                                          hit_speed |-> hit_speed])],
              dx, dy, d)

StrikeAt(s, i, now, dx, dy, d, hit_speed) ==
    RodBounce([s EXCEPT !.last[i] = now, !.glow[i] = GlowFrames,
                        !.notes = Append(s.notes,
                                         [rod |-> i,
                                          note |-> ChimeNote(s.chime, i),
                                          velocity |-> NoteVelocity(hit_speed),
                                          hit_speed |-> hit_speed])],
              dx, dy, d)

\* the strike of rod i: timestamp, glow, note-on, bounce
Strike(s, i, now, dx, dy, d) ==
    StrikeAt(s, i, now, dx, dy, d, FHypot(s.vx, s.vy))

\* the loop over the rods, from rod i on
RECURSIVE RodLoop(_, _, _), RodAt(_, _, _, _, _), RodAtDist(_, _, _, _, _, _),
          RodNear(_, _, _, _, _, _)
RodLoop(s, i, now) ==
    IF i > 7 THEN s
    ELSE RodAt(s, i, now, FSub(s.x, s.fx[i]), FSub(s.y, s.fy[i]))

RodAt(s, i, now, dx, dy) == RodAtDist(s, i, now, dx, dy, FHypot(dx, dy))

RodAtDist(s, i, now, dx, dy, d) ==
    IF d < HIT_DIST
    THEN RodNear([s EXCEPT !.near = s.near \cup {i}], i, now, dx, dy, d)
    ELSE RodLoop(s, i + 1, now)

RodNear(s, i, now, dx, dy, d) ==
    IF Debounced(now, s.last[i])
    THEN RodLoop(Strike(s, i, now, dx, dy, d), i + 1, now)
    ELSE RodLoop(s, i + 1, now)

\* a drawUpdate() that counts every rod down, glowing or not, in uint8_t
drawUpdate_Wrap(s) ==
    [s EXCEPT !.glow = [i \in Rods |-> (s.glow[i] + 255) % 256],
              !.drawn = [i \in Rods |-> RodColour((s.glow[i] + 255) % 256)],
              !.psx = CX + FTrunc(s.x),
              !.psy = CY + FTrunc(s.y)]

\* 6. drawUpdate(): the glow counters run down, each rod whose counter ran
\* is redrawn, the ball is redrawn
drawUpdate(s) ==
    [s EXCEPT !.glow = [i \in Rods |-> IF s.glow[i] > 0 THEN s.glow[i] - 1 ELSE 0],
              !.drawn = [i \in Rods |-> IF s.glow[i] > 0
                                        THEN RodColour(s.glow[i] - 1)
                                        ELSE s.drawn[i]],
              !.psx = CX + FTrunc(s.x),
              !.psy = CY + FTrunc(s.y)]

\* the globals as a record, with the observations of one loop() cleared
Globals ==
    [chime |-> current_chime, cal_ax |-> cal_ax, cal_ay |-> cal_ay,
     x |-> ball_x, y |-> ball_y, vx |-> ball_vx, vy |-> ball_vy,
     last |-> rod_last_hit, glow |-> rod_glow, fx |-> rod_fx, fy |-> rod_fy,
     psx |-> prev_ball_sx, psy |-> prev_ball_sy,
     notes |-> <<>>, near |-> {}, wall_hit |-> FALSE,
     drawn |-> [i \in Rods |-> NotDrawn]]

\* steps 5 and 6, from the ball c after the speed clamp and w after the wall
loopWalled(c, w, now) ==
    [end |-> drawUpdate(RodLoop(w, 0, now)), clamped |-> c, walled |-> w]

\* steps 3 to 6
loopClamped(c, now) == loopWalled(c, Constrain(Move(c)), now)

\* steps 1 to 6, from the globals b after the buttons
loopTilt(b, in, now) ==
    loopClamped(ClampSpeed(Accelerate(b, TiltX(b, in), TiltY(b, in))), now)

\* one loop() from the globals s with the inputs in, millis() reading now
loop(s, in, now) == loopTilt(Buttons(s, in), in, now)

----------------------------------------------------------------------------
(* unnamed/part_000: loop() *)

HIGH == 1
LOW == 0
MAX_ACTIVE_NOTES == 10
noteDuration == 1000
preCylNextButtonStatus == HIGH
preCylPrevButtonStatus == HIGH
\* 360.0f
F360 == 1135869952
F4 == 1082130432

notes ==
    << <<NOTE_G3, NOTE_C4, NOTE_E4, NOTE_F4, NOTE_G4, NOTE_C5, NOTE_E5, NOTE_G5>>,
       <<NOTE_A3, NOTE_D4, NOTE_F4, NOTE_G4, NOTE_A4, NOTE_D5, NOTE_F5, NOTE_A5>>,
       <<NOTE_A3, NOTE_C4, NOTE_E4, NOTE_A4, NOTE_B4, NOTE_C5, NOTE_E5, NOTE_B5>>,
       <<NOTE_G3, NOTE_B4, NOTE_D4, NOTE_G4, NOTE_B4, NOTE_D5, NOTE_G5, NOTE_A5>> >>

Slots == 0..(MAX_ACTIVE_NOTES - 1)
FreeSlot == [note |-> -1, startTime |-> U32(0)]

\* M5.BtnC.wasPressed() as an int, compared with the status kept from before
\* (which no statement ever updates)
CylNext(id, pressedC) ==
    LET cylNextbuttonStatus == IF pressedC THEN 1 ELSE 0
    IN  IF preCylNextButtonStatus # cylNextbuttonStatus /\ cylNextbuttonStatus = LOW
        THEN (IF id + 1 > 3 THEN 0 ELSE id + 1)
        ELSE id

\* the decrement without its wrap to 3
CylPrev_NoWrap(id, pressedA) ==
    IF preCylPrevButtonStatus # (IF pressedA THEN 1 ELSE 0) /\ ~pressedA
    THEN id - 1
    ELSE id

CylPrev(id, pressedA) ==
    LET cylPrevbuttonStatus == IF pressedA THEN 1 ELSE 0
    IN  IF preCylPrevButtonStatus # cylPrevbuttonStatus /\ cylPrevbuttonStatus = LOW
        THEN (IF id - 1 < 0 THEN 3 ELSE id - 1)
        ELSE id

\* (int)((angle + 22.5) / 45.0) for a float angle >= 0; the sum and the
\* quotient are doubles: the sum is exact, and the quotient rounds by less
\* than its distance to the next integer, so this is the number of sector
\* borders 45 k - 22.5 (floats, all of them) at or below the angle
SectorBorder(k) == FDiv(FFromInt(90 * k - 45), F2)
Sector(angle) == Cardinality({k \in 1..9 : angle >= SectorBorder(k)})

\* deg is atan2(accelY, accelX) * 180 / PI
Direction(deg) ==
    LET angle == IF deg < 0 THEN FAdd(deg, F360) ELSE deg
    IN  Sector(angle) % 8

Volume(gyroX, gyroY, gyroZ) ==
    LET angularVelocity ==
            FSqrt(FAdd(FAdd(FMul(gyroX, gyroX), FMul(gyroY, gyroY)),
                       FMul(gyroZ, gyroZ)))
        volume == FTrunc(FMul(angularVelocity, F4)) - 20
    IN  IF volume > 127 THEN 127 ELSE IF volume < 0 THEN 0 ELSE volume

\* a full table giving up its first slot to the new note
addActiveNote_Overwrite(active, note, startTime) ==
    LET free == {i \in Slots : active[i].note = -1}
        i == IF free = {} THEN 0 ELSE CHOOSE j \in free : \A k \in free : j <= k
    IN  [active EXCEPT ![i] = [note |-> note, startTime |-> startTime]]

\* addActiveNote(): the first free slot takes the note; none free, none taken
addActiveNote(active, note, startTime) ==
    LET free == {i \in Slots : active[i].note = -1}
    IN  IF free = {} THEN active
        ELSE LET i == CHOOSE j \in free : \A k \in free : j <= k
             IN  [active EXCEPT ![i] = [note |-> note, startTime |-> startTime]]

Expired(slot, currentTime) ==
    /\ slot.note # -1
    /\ U32GtSmall(U32Sub(currentTime, slot.startTime), noteDuration - 1)

\* the note-off scan: <<the table after it, the notes switched off in order>>
RECURSIVE NoteOffs(_, _, _)
NoteOffs(active, i, currentTime) ==
    IF i >= MAX_ACTIVE_NOTES THEN <<>>
    ELSE IF Expired(active[i], currentTime)
    THEN <<[kind |-> "off", note |-> active[i].note, velocity |-> 0]>>
         \o NoteOffs(active, i + 1, currentTime)
    ELSE NoteOffs(active, i + 1, currentTime)

removeExpired(active, currentTime) ==
    [i \in Slots |-> IF Expired(active[i], currentTime) THEN FreeSlot ELSE active[i]]

\* delay(volume * 0.8 + 70), in ms
LoopDelay(volume) == (8 * volume + 700) \div 10

p0_loop(s, in, currentTime) ==
    LET id == CylPrev(CylNext(s.cylID, in.C), in.A)
        direction == Direction(in.deg)
        volume == Volume(in.gx, in.gy, in.gz)
        note == notes[id + 1][direction + 1]
        played == volume > 10
        added == IF played THEN addActiveNote(s.active, note, currentTime)
                 ELSE s.active
        on == IF played
              THEN <<[kind |-> "on", note |-> note, velocity |-> volume]>>
              ELSE <<>>
    IN  [cylID |-> id, prevcylID |-> id,
         active |-> removeExpired(added, currentTime),
         out |-> on \o NoteOffs(added, 0, currentTime),
         direction |-> direction, volume |-> volume,
         delay |-> LoopDelay(volume)]

----------------------------------------------------------------------------
(* unnamed/part_001: loop() *)

minNoteInterval == 200

p1_notes ==
    <<NOTE_C4, NOTE_D4, NOTE_E4, NOTE_G4, NOTE_B4, NOTE_C5, NOTE_E5, NOTE_G5>>
noteNames == <<"C4", "D4", "E4", "G4", "B4", "C5", "E5", "G5">>

\* no name returned yet, and no loop() run yet
NoName == [index |-> -1, text |-> "", octave |-> 0, fault |-> FALSE]
NotSeen == [direction |-> 0, volume |-> 0]

\* what the memory behind noteNames may hold where a string pointer is read
StrayTexts == {"", "stray"}

\* getNoteName(): the outcomes of the read noteNames[midiNote % 12] and the
\* sprintf() of it; a read past the end of the array finds any pointer, which
\* sprintf() prints as some text or faults on
getNoteName(midiNote) ==
    LET noteIndex == midiNote % 12
        octave == midiNote \div 12 - 1
    IN  IF noteIndex < Len(noteNames)
        THEN {[index |-> noteIndex, text |-> noteNames[noteIndex + 1],
               octave |-> octave, fault |-> FALSE]}
        ELSE {[index |-> noteIndex, text |-> t, octave |-> octave,
               fault |-> FALSE] : t \in StrayTexts}
             \cup {[index |-> noteIndex, text |-> "", octave |-> octave,
                    fault |-> TRUE]}

\* a note played as soon as the interval has passed, not after it
MayPlay_AtInterval(s, note, volume, currentTime) ==
    /\ volume > 10
    /\ U32GtSmall(U32Sub(currentTime, s.lastNoteTime), minNoteInterval - 1)
    /\ s.lastnote # note

\* the test of the note-on: loud enough, the minimum interval has passed,
\* and not the note played last
MayPlay(s, note, volume, currentTime) ==
    /\ volume > 10
    /\ U32GtSmall(U32Sub(currentTime, s.lastNoteTime), minNoteInterval)
    /\ s.lastnote # note

\* loop() up to the note-on; the direction and the volume are computed as in
\* part_000
p1_play(s, direction, volume, currentTime) ==
    [played |-> MayPlay(s, p1_notes[direction + 1], volume, currentTime),
     note |-> p1_notes[direction + 1],
     direction |-> direction, volume |-> volume]

p1_loop(s, in, currentTime) ==
    p1_play(s, Direction(in.deg), Volume(in.gx, in.gy, in.gz), currentTime)

----------------------------------------------------------------------------
(* the environment: sensor readings, buttons, time *)

MaxTicks == 3
MaxPresses == 1
MaxRests == 1
MaxP0Loops == 3
RestTicks == 100
TiltTicks == 100
TiltFreeTicks == 8
ShakeTicks == 4
StallTicks == 1
StallJitter == 1
PushTicks == 8
GlowTicks == 40
\* millis() when setup() returns: checkSDUpdater() waits this long
BootMillis == 2000

\* accelerometer readings per axis, in g: 0.0f and 8.0f
F8 == 130 * TwoP23
SensorVals == {0, F8}
\* 1.0f
F1 == 127 * TwoP23
\* ms from one millis() reading of loop() to the next: delay(20) and up
DtSet == {20, 80, 100}
\* a redrawn screen takes longer
RedrawDt == 80
\* the device lying still for 2^32 - 2050 ms: millis() is close to its wrap
RestSpan == <<65535, 63486>>

\* part_000: atan2 in degrees (0.0f, -90.0f), gyro readings in
\* degrees per second (0.0f, 10.0f, 50.0f), ms from the end of the delay to
\* the next millis() reading
P0Degs == {0, -1119092736}
P0Gyros == {0, 1092616192, 1112014848}
P0Lag == 8
\* a steady swing of 10.0f degrees per second, and how long it lasts and is
\* followed by stillness, in passes of loop()
P0SwingGyro == 1092616192
MaxP0Strum == 12
MaxP0Still == 14

\* part_001: passes of loop(), the first of them with the device aimed
\* anywhere; ms from one millis() reading to the next (a pass takes its
\* delay(20), the sensor reads and the drawing); tilt directions 0.0f, 180.0f
\* and -90.0f; gyro readings 0.0f and 10.0f
MaxP1Loops == 4
MaxP1Aims == 1
P1Dts == {100, 250}
F180 == 1127481344
P1Degs == {0, F180, -1119092736}
P1Gyros == {0, P0SwingGyro}
\* atan2 in degrees at the sector borders 22.5, 67.5, 112.5 and 157.5, one
\* float below and above them, on either side of zero, and -2^-20
P1Borders == {SectorBorder(k) : k \in 1..4}
P1Angles ==
    {b + d : b \in P1Borders, d \in {-1, 0, 1}}
    \cup {-(b + d) : b \in P1Borders, d \in {-1, 0, 1}}
    \cup {-(107 * TwoP23)}

NoInput == [ax |-> 0, ay |-> 0, A |-> FALSE, B |-> FALSE, C |-> FALSE,
            calx |-> 0, caly |-> 0, dt |-> 0]

\* what one loop() went through: the speed after the clamp, the ball after
\* the wall, the rods within HIT_DIST, the delay() at its end, and the chime,
\* the ball and the rods' timestamps it started from, and the rods' glow
\* counters and timestamps after the button handlers
NoObs == [clamp_speed |-> 0, wall_hit |-> FALSE, wall_x |-> 0, wall_y |-> 0,
          wall_speed |-> 0, drawn |-> [i \in Rods |-> NotDrawn],
          clamp_vx |-> 0, clamp_vy |-> 0, moved_x |-> 0, moved_y |-> 0,
          wall_vx |-> 0, wall_vy |-> 0,
          near |-> {}, delay |-> 0, chime_before |-> 0,
          btn_glow |-> [i \in Rods |-> 0],
          btn_last |-> [i \in Rods |-> U32(0)],
          ball_before |-> <<0, 0, 0, 0>>,
          last_before |-> [i \in Rods |-> U32(0)]]

----------------------------------------------------------------------------
(* setup() *)

SetupCommon ==
    /\ clock = U32(BootMillis)
    /\ epoch = 0
    /\ inp = NoInput
    /\ notes_out = <<>>
    /\ obs = NoObs
    /\ ticks = 0
    /\ presses = 0
    /\ rests = 0
    /\ last_strike = [i \in Rods |-> <<>>]

\* the globals' initialisers, for both sketches (only one of them runs)
Globals0 ==
    /\ current_chime = TERRA
    /\ ball_x = 0 /\ ball_y = 0 /\ ball_vx = 0 /\ ball_vy = 0
    /\ rod_last_hit = [i \in Rods |-> U32(0)]
    /\ rod_glow = [i \in Rods |-> 0]
    /\ prev_ball_sx = CX /\ prev_ball_sy = CY
    /\ cylID = 0
    /\ prevcylID = -1
    /\ activeNotes = [i \in Slots |-> FreeSlot]
    /\ lastnote = -1
    /\ lastNoteTime = U32(0)
    /\ shown = NoName
    /\ last_on = <<>>
    /\ p1_seen = NotSeen

\* M5Core2-KoshiChime.ino setup(): the rod positions, and the first
\* calibration from the sensor
setup(calx, caly) ==
    /\ rod_fx = [i \in Rods |-> RodFx[i + 1]]
    /\ rod_fy = [i \in Rods |-> RodFy[i + 1]]
    /\ rod_px = [i \in Rods |-> CX + FTrunc(RodFx[i + 1])]
    /\ rod_py = [i \in Rods |-> CY + FTrunc(RodFy[i + 1])]
    /\ cal_ax = calx
    /\ cal_ay = caly

InitMain ==
    /\ prog = "main"
    /\ SetupCommon
    /\ Globals0
    /\ \E cal \in SensorVals : setup(cal, cal)

InitP0 ==
    /\ prog = "p0"
    /\ SetupCommon
    /\ Globals0
    /\ setup(0, 0)

Init == InitMain \/ InitP0

\* part_001: its setup() assigns none of the globals modelled
InitP1 ==
    /\ prog = "p1"
    /\ SetupCommon
    /\ Globals0
    /\ setup(0, 0)

----------------------------------------------------------------------------
(* actions *)

Struck(hits) == {hits[k].rod : k \in 1..Len(hits)}

\* one run of loop() of the main sketch
Loop(in) ==
    /\ prog = "main"
    /\ \E now \in {U32Add(clock, U32(in.dt))},
          ep \in {IF U32Carry(clock, U32(in.dt)) THEN epoch + 1 ELSE epoch} :
      \E r \in {loop(Globals, in, now)} :
       \E e \in {r.end} :
        /\ ticks' = ticks + 1
        /\ clock' = now
        /\ epoch' = ep
        /\ inp' = in
        /\ current_chime' = e.chime
        /\ cal_ax' = e.cal_ax
        /\ cal_ay' = e.cal_ay
        /\ ball_x' = e.x
        /\ ball_y' = e.y
        /\ ball_vx' = e.vx
        /\ ball_vy' = e.vy
        /\ rod_last_hit' = e.last
        /\ rod_glow' = e.glow
        /\ prev_ball_sx' = e.psx
        /\ prev_ball_sy' = e.psy
        /\ notes_out' = e.notes
        /\ obs' = [clamp_speed |-> FHypot(r.clamped.vx, r.clamped.vy),
                   wall_hit |-> r.walled.wall_hit,
                   wall_x |-> r.walled.x, wall_y |-> r.walled.y,
                   wall_speed |-> FHypot(r.walled.vx, r.walled.vy),
                   drawn |-> e.drawn,
                   clamp_vx |-> r.clamped.vx, clamp_vy |-> r.clamped.vy,
                   moved_x |-> FAdd(r.clamped.x, r.clamped.vx),
                   moved_y |-> FAdd(r.clamped.y, r.clamped.vy),
                   wall_vx |-> r.walled.vx, wall_vy |-> r.walled.vy,
                   near |-> e.near, delay |-> 20,
                   chime_before |-> current_chime,
                   btn_glow |-> Buttons(Globals, in).glow,
                   btn_last |-> Buttons(Globals, in).last,
                   ball_before |-> <<ball_x, ball_y, ball_vx, ball_vy>>,
                   last_before |-> rod_last_hit]
        /\ last_strike' = [i \in Rods |->
                             IF i \in Struck(e.notes) THEN <<ep, now>>
                             ELSE last_strike[i]]
        /\ rod_fx' = e.fx
        /\ rod_fy' = e.fy
        /\ UNCHANGED <<prog, rod_px, rod_py, p0Vars, p1Vars, rests>>

\* the time a pass takes matters while a rod's debounce window may be open,
\* which a glowing rod shows; elsewhere a pass takes the delay(20)
PlayDts == IF \E i \in Rods : rod_glow[i] > 0 THEN DtSet ELSE {20}

\* loop() with no button event
TickPlay ==
    /\ prog = "main"
    /\ ticks < MaxTicks
    /\ \E ax \in SensorVals, ay \in SensorVals, dt \in PlayDts :
        /\ presses' = presses
        /\ Loop([NoInput EXCEPT !.ax = ax, !.ay = ay, !.dt = dt])

\* loop() with a button event: BtnA or BtnC pressed, BtnB released (which
\* reads the sensor for the calibration), or several of them
TickButtons ==
    /\ prog = "main"
    /\ ticks < MaxTicks
    /\ presses < MaxPresses
    /\ \E A \in BOOLEAN, B \in BOOLEAN, C \in BOOLEAN,
          ax \in SensorVals, cal \in SensorVals :
        /\ TRUE \in {A, B, C}
        /\ cal \in (IF B THEN SensorVals ELSE {0})
        /\ presses' = presses + 1
        /\ Loop([ax |-> ax, ay |-> 0, A |-> A, B |-> B, C |-> C,
                 calx |-> cal, caly |-> 0, dt |-> RedrawDt])

\* the device lies still, ball at rest in the centre, for RestSpan ms: every
\* loop() of that time leaves the globals as they are, but for the glow
\* counters, which run out
LongRest ==
    /\ prog = "main"
    /\ rests < MaxRests
    /\ ball_x = 0 /\ ball_y = 0 /\ ball_vx = 0 /\ ball_vy = 0
    /\ rests' = rests + 1
    /\ clock' = U32Add(clock, RestSpan)
    /\ epoch' = IF U32Carry(clock, RestSpan) THEN epoch + 1 ELSE epoch
    /\ inp' = [NoInput EXCEPT !.ax = cal_ax, !.ay = cal_ay, !.dt = 20]
    /\ rod_glow' = [i \in Rods |-> 0]
    /\ notes_out' = <<>>
    /\ obs' = [NoObs EXCEPT !.delay = 20, !.chime_before = current_chime,
                            !.btn_last = rod_last_hit,
                            !.last_before = rod_last_hit]
    /\ UNCHANGED <<prog, current_chime, cal_ax, cal_ay, ball_x, ball_y, ball_vx,
                   ball_vy, rod_last_hit, rod_px, rod_py, rod_fx, rod_fy,
                   prev_ball_sx, prev_ball_sy, last_strike, presses, ticks,
                   p0Vars, p1Vars>>

\* one run of loop() of part_000 with the buttons A and C, the tilt direction
\* deg and the gyro reading g
P0Pass(A, C, deg, g) ==
    /\ prog = "p0"
    /\ \E in \in {[A |-> A, C |-> C, deg |-> deg, gx |-> g, gy |-> 0, gz |-> 0,
                   dt |-> obs.delay + P0Lag]} :
       \E now \in {U32Add(clock, U32(in.dt))} :
        \E r \in {p0_loop([cylID |-> cylID, prevcylID |-> prevcylID,
                            active |-> activeNotes], in, now)} :
            /\ ticks' = ticks + 1
            /\ clock' = now
            /\ epoch' = IF U32Carry(clock, U32(in.dt)) THEN epoch + 1 ELSE epoch
            /\ inp' = in
            /\ cylID' = r.cylID
            /\ prevcylID' = r.prevcylID
            /\ activeNotes' = r.active
            /\ notes_out' = r.out
            /\ obs' = [NoObs EXCEPT !.delay = r.delay]
            /\ UNCHANGED <<prog, current_chime, cal_ax, cal_ay, ball_x, ball_y,
                           ball_vx, ball_vy, rod_last_hit, rod_glow, rod_px,
                           rod_py, rod_fx, rod_fy, prev_ball_sx, prev_ball_sy,
                           last_strike, presses, rests, p1Vars>>

P0Loop ==
    /\ prog = "p0"
    /\ ticks < MaxP0Loops
    /\ \E A \in BOOLEAN, C \in BOOLEAN, deg \in P0Degs, g \in P0Gyros :
        P0Pass(A, C, deg, g)

\* loop() of part_000 with the device swung steadily, one way or the other:
\* a note in every pass, no button event
P0Strum ==
    /\ prog = "p0"
    /\ ticks < MaxP0Strum
    /\ \E deg \in P0Degs : P0Pass(FALSE, FALSE, deg, P0SwingGyro)

\* loop() of part_000 with the device held still afterwards: no note
P0Still ==
    /\ prog = "p0"
    /\ ticks >= MaxP0Strum
    /\ ticks < MaxP0Strum + MaxP0Still
    /\ P0Pass(FALSE, FALSE, 0, 0)

\* one run of loop() of part_001 with the tilt direction deg and the gyro
\* reading g, dt ms after the one before; a fault in getNoteName() ends the
\* run after the note-on and before lastNoteTime and lastnote are assigned
P1Pass(deg, g, dt) ==
    /\ prog = "p1"
    /\ ~shown.fault
    /\ \E in \in {[NoInput EXCEPT !.dt = dt] @@ [deg |-> deg, gx |-> g,
                                                 gy |-> 0, gz |-> 0]} :
       \E now \in {U32Add(clock, U32(dt))},
          ep \in {IF U32Carry(clock, U32(dt)) THEN epoch + 1 ELSE epoch} :
        \E r \in {p1_loop([lastnote |-> lastnote,
                            lastNoteTime |-> lastNoteTime], in, now)} :
         \E nm \in (IF r.played THEN getNoteName(r.note) ELSE {shown}) :
            /\ ticks' = ticks + 1
            /\ clock' = now
            /\ epoch' = ep
            /\ inp' = in
            /\ notes_out' = IF r.played
                            THEN <<[kind |-> "on", note |-> r.note,
                                    velocity |-> r.volume]>>
                            ELSE <<>>
            /\ shown' = nm
            /\ lastNoteTime' = IF r.played /\ ~nm.fault THEN now ELSE lastNoteTime
            /\ lastnote' = IF r.played /\ ~nm.fault THEN r.note ELSE lastnote
            /\ last_on' = IF r.played
                          THEN <<ep, now, r.note,
                                 IF last_on = <<>> THEN 1 ELSE last_on[4] + 1>>
                          ELSE last_on
            /\ p1_seen' = [direction |-> r.direction, volume |-> r.volume]
            /\ UNCHANGED <<mainVars, p0Vars, prog>>

P1Loop ==
    /\ prog = "p1"
    /\ ticks < MaxP1Loops
    /\ \E deg \in P1Degs, g \in P1Gyros, dt \in P1Dts : P1Pass(deg, g, dt)

\* loop() of part_001 with the device swung at any of the sector borders
P1Aim ==
    /\ prog = "p1"
    /\ ticks < MaxP1Aims
    /\ \E deg \in P1Angles, dt \in P1Dts : P1Pass(deg, P0SwingGyro, dt)

\* part_001 lying still for RestSpan ms: no loop() of that time plays a note
P1LongRest ==
    /\ prog = "p1"
    /\ ~shown.fault
    /\ rests < MaxRests
    /\ rests' = rests + 1
    /\ clock' = U32Add(clock, RestSpan)
    /\ epoch' = IF U32Carry(clock, RestSpan) THEN epoch + 1 ELSE epoch
    /\ inp' = [NoInput EXCEPT !.dt = 20] @@ [deg |-> 0, gx |-> 0, gy |-> 0,
                                             gz |-> 0]
    /\ notes_out' = <<>>
    /\ p1_seen' = [direction |-> 0, volume |-> 0]
    /\ UNCHANGED <<prog, current_chime, cal_ax, cal_ay, ball_x, ball_y, ball_vx,
                   ball_vy, rod_last_hit, rod_glow, rod_px, rod_py, rod_fx,
                   rod_fy, prev_ball_sx, prev_ball_sy, last_strike, obs,
                   presses, ticks, p0Vars, lastnote, lastNoteTime, shown,
                   last_on>>

\* loop() with the device held exactly as calibrated, no button event
TickRest ==
    /\ prog = "main"
    /\ ticks < RestTicks
    /\ presses' = presses
    /\ Loop([NoInput EXCEPT !.ax = cal_ax, !.ay = cal_ay, !.dt = 20])

\* the time a pass of the tilted run takes: any of PlayDts in each of the
\* first TiltFreeTicks passes, and from then on what the last of them took
TiltDts == IF ticks < TiltFreeTicks THEN PlayDts ELSE {inp.dt}

\* loop() with the device held tilted by 1 g in x from where it was calibrated,
\* no button event
TickTilt ==
    /\ prog = "main"
    /\ ticks < TiltTicks
    /\ presses' = presses
    /\ \E dt \in TiltDts :
        Loop([NoInput EXCEPT !.ax = FAdd(cal_ax, F1), !.ay = cal_ay,
                             !.dt = dt])

NextMain == TickPlay \/ TickButtons \/ LongRest

Next == TickPlay \/ TickButtons \/ LongRest \/ P0Loop

\* either sketch, from its setup()
Spec == Init /\ [][Next]_vars

\* the main sketch
SpecMain == InitMain /\ [][NextMain]_vars

\* the main sketch lying still
SpecRest == InitMain /\ [][TickRest]_vars

\* the device tilted by 1 g in x for the first passes of loop()
TickPush ==
    /\ prog = "main"
    /\ ticks < PushTicks
    /\ ticks = 0 \/ inp.ax # cal_ax
    /\ presses' = presses
    /\ Loop([NoInput EXCEPT !.ax = FAdd(cal_ax, F1), !.ay = cal_ay, !.dt = 20])

\* and held as calibrated from then on
TickLevel ==
    /\ prog = "main"
    /\ ticks < GlowTicks
    /\ presses' = presses
    /\ Loop([NoInput EXCEPT !.ax = cal_ax, !.ay = cal_ay, !.dt = 20])

\* the main sketch pushed and then left alone
SpecGlow == InitMain /\ [][TickPush \/ TickLevel]_vars

\* loop() with the device shaken, 20 ms a pass, no button event
TickShake ==
    /\ prog = "main"
    /\ ticks < ShakeTicks
    /\ presses' = presses
    /\ \E ax \in SensorVals, ay \in SensorVals :
        Loop([NoInput EXCEPT !.ax = ax, !.ay = ay, !.dt = 20])

\* the calibrated tilt that takes the velocity v off the ball in one pass:
\* step 2 adds tilt * GRAVITY_SCALE * 0.02f to it
StallOf(v) == FDiv(FDiv(v, TickScale), GRAVITY_SCALE)

\* the tilts that all but stop a ball of velocity v on one axis: within
\* StallJitter floats of StallOf(v), and none when the ball has no velocity
StallTilts(v) ==
    IF v = 0 THEN {0}
    ELSE {StallOf(v) + i : i \in -StallJitter..StallJitter}

\* loop() with the device tilted against the ball's flight, 20 ms after the
\* last pass, no button event
TickStall ==
    /\ prog = "main"
    /\ ticks >= ShakeTicks
    /\ ticks < ShakeTicks + StallTicks
    /\ presses' = presses
    /\ \E tx \in StallTilts(ball_vx), ty \in StallTilts(ball_vy) :
        Loop([NoInput EXCEPT !.ax = FAdd(cal_ax, tx), !.ay = FSub(cal_ay, ty),
                             !.dt = 20])

\* the main sketch shaken and then held against the ball's flight
SpecWall == InitMain /\ [][TickShake \/ TickStall]_vars

\* the Arduino core calls loop() again as soon as it returns: a pass that can
\* be taken is taken. loop() has no guard of its own, so TickTilt is enabled
\* exactly when this is
LoopAgain == prog = "main" /\ ticks < TiltTicks /\ ticks' = ticks + 1

\* the main sketch held tilted, loop() called for ever
SpecTilt == InitMain /\ [][TickTilt]_vars /\ WF_ticks(LoopAgain)

\* part_000
SpecP0 == InitP0 /\ [][P0Loop]_vars

\* the Arduino core calls loop() of part_000 again as soon as it returns
P0Again ==
    prog = "p0" /\ ticks < MaxP0Strum + MaxP0Still /\ ticks' = ticks + 1

\* part_000 swung and then held still, loop() called for ever
SpecP0Notes == InitP0 /\ [][P0Strum \/ P0Still]_vars /\ WF_ticks(P0Again)

\* part_001
SpecP1 == InitP1 /\ [][P1Loop \/ P1Aim \/ P1LongRest]_vars

----------------------------------------------------------------------------
(* properties of the main sketch *)

\* the ball's distance from the centre and its speed, as loop() computes them
BallDist == FHypot(ball_x, ball_y)
BallSpeed == FHypot(ball_vx, ball_vy)

\* the hits of the last loop()
Hits == {notes_out[k] : k \in 1..Len(notes_out)}

\* C1 as stated: at the end of every tick the ball's distance from the
\* centre is at most max_dist = 51.
C1_DistAtMostMaxDist == prog = "main" => BallDist <= max_dist

\* C1: at the end of every tick the ball is where the wall constraint left
\* it (the rod step never moves it), and its distance from the centre is at
\* most max_dist up to the rounding of the float projection: at most 8 units
\* in the last place above 51.
C1_BallInTube ==
    prog = "main" =>
        /\ BallDist <= max_dist + 8
        /\ ticks > 0 => ball_x = obs.wall_x /\ ball_y = obs.wall_y

\* a tick in which the wall pushed the ball back and a rod was struck
C1_Witness ==
    /\ prog = "main"
    /\ obs.wall_hit
    /\ notes_out # <<>>
    /\ BallDist >= max_dist

\* C2 as stated: the speed after the clamp, the speed of every strike and
\* the speed at the end of the tick are at most MAX_SPEED = 20.
C2_SpeedAtMostMaxSpeed ==
    prog = "main" =>
        /\ obs.clamp_speed <= MAX_SPEED
        /\ \A h \in Hits : h.hit_speed <= MAX_SPEED
        /\ BallSpeed <= MAX_SPEED

\* C2: the speed after the clamp, the speed of every strike and the speed
\* at the end of the tick are at most MAX_SPEED up to the rounding of the
\* float rescaling: at most 8 units in the last place above 20.
C2_SpeedClamped ==
    prog = "main" =>
        /\ obs.clamp_speed <= MAX_SPEED + 8
        /\ \A h \in Hits : h.hit_speed <= MAX_SPEED + 8
        /\ BallSpeed <= MAX_SPEED + 8

\* a rod struck at the clamped speed, which the clamp had to cut down
C2_Witness ==
    /\ prog = "main"
    /\ obs.clamp_speed >= MAX_SPEED
    /\ \E h \in Hits : h.hit_speed = obs.clamp_speed

\* more than n ms (n < 2^16) lie between the readings t1 and the later t2,
\* each a pair <<wraps of millis() so far, millis()>>
ElapsedOver(t1, t2, n) ==
    IF t2[1] = t1[1] \/ (t2[1] = t1[1] + 1 /\ U32Less(t2[2], t1[2]))
    THEN U32GtSmall(U32Sub(t2[2], t1[2]), n)
    ELSE TRUE

\* C3: of two ticks at most ROD_DEBOUNCE = 80 ms apart at most one strikes
\* rod i: a tick that strikes rod i comes more than 80 ms after the last
\* tick that struck it.
C3_Debounce ==
    [][prog = "main" =>
        \A i \in Struck(notes_out') :
            last_strike[i] # <<>> =>
                ElapsedOver(last_strike[i], <<epoch', clock'>>, ROD_DEBOUNCE)]_vars

\* a rod within HIT_DIST that stays silent exactly 80 ms after its strike
C3_Witness ==
    /\ prog = "main"
    /\ \E i \in obs.near :
        /\ i \notin Struck(notes_out)
        /\ last_strike[i] # <<>>
        /\ last_strike[i][1] = epoch
        /\ U32Sub(clock, last_strike[i][2]) = U32(ROD_DEBOUNCE)

\* C4 as stated: each strike of rod i sets rod_last_hit[i] to a value
\* strictly greater than the value it held before.
C4_StampStrictlyGreater ==
    [][prog = "main" =>
        \A i \in Struck(notes_out') :
            U32Less(rod_last_hit[i], rod_last_hit'[i])]_vars

\* C4: each strike of rod i sets rod_last_hit[i] to the millis() reading of
\* that tick, which is more than ROD_DEBOUNCE ahead of the old value as an
\* unsigned 32-bit difference, and strictly greater than the old value
\* unless millis() has wrapped since the rod's previous strike.
C4_StampAdvances ==
    [][prog = "main" =>
        \A i \in Struck(notes_out') :
            /\ rod_last_hit'[i] = clock'
            /\ U32GtSmall(U32Sub(rod_last_hit'[i], rod_last_hit[i]), ROD_DEBOUNCE)
            /\ (IF last_strike[i] = <<>> THEN epoch' = 0
                ELSE last_strike[i][1] = epoch')
               => U32Less(rod_last_hit[i], rod_last_hit'[i])]_vars

\* a rod struck again after millis() wrapped: its timestamp went down
C4_Witness ==
    /\ prog = "main"
    /\ \E i \in Struck(notes_out) :
        /\ obs.last_before[i] # U32(0)
        /\ rod_last_hit[i] = clock
        /\ U32Less(rod_last_hit[i], obs.last_before[i])

\* C5: every note-on has velocity min(127, trunc(30 + 5 * speed)) for the
\* speed at the strike; it lies in 30..127, the value converted to uint8_t
\* is below 256, and a strike at exactly MAX_SPEED has velocity 127.
C5_NoteVelocity ==
    prog = "main" =>
        \A h \in Hits :
            /\ FTrunc(FAdd(F30, FMul(h.hit_speed, F5))) \in 30..255
            /\ h.velocity =
                   (IF FTrunc(FAdd(F30, FMul(h.hit_speed, F5))) < 127
                    THEN FTrunc(FAdd(F30, FMul(h.hit_speed, F5))) ELSE 127)
            /\ h.velocity \in 30..127
            /\ h.hit_speed = MAX_SPEED => h.velocity = 127

\* a strike at exactly MAX_SPEED, emitted with velocity 127
C5_Witness ==
    /\ prog = "main"
    /\ \E h \in Hits : h.hit_speed = MAX_SPEED /\ h.velocity = 127

\* C6: a strike of rod i while variant c is active emits the pitch
\* chime_notes[c][i], c being the variant after the buttons of that tick.
C6_Pitch ==
    prog = "main" =>
        \A h \in Hits : h.note = chime_notes[current_chime + 1][h.rod + 1]

\* a strike under a variant other than the first, whose pitch for that rod
\* differs from the first variant's
C6_Witness ==
    /\ prog = "main"
    /\ current_chime # TERRA
    /\ \E h \in Hits : h.note # chime_notes[TERRA + 1][h.rod + 1]

\* C7: 'next' four times is the identity on 0..3, 'previous' is the inverse
\* of 'next', and a tick changes current_chime by 'previous' on a BtnA press
\* and then 'next' on a BtnC press, so that both together leave it unchanged.
C7_ChimeCycle ==
    /\ \A c \in 0..3 :
        /\ NextChime(NextChime(NextChime(NextChime(c)))) = c
        /\ PrevChime(NextChime(c)) = c
        /\ NextChime(PrevChime(c)) = c
    /\ prog = "main" /\ ticks > 0 =>
        /\ inp.A /\ ~inp.C => current_chime = (obs.chime_before + 3) % 4
        /\ inp.C /\ ~inp.A => current_chime = (obs.chime_before + 1) % 4
        /\ inp.A /\ inp.C => current_chime = obs.chime_before
        /\ ~inp.A /\ ~inp.C => current_chime = obs.chime_before

\* a tick that saw both BtnA and BtnC pressed
C7_Witness == prog = "main" /\ ticks > 0 /\ inp.A /\ inp.C

\* C8: current_chime is in 0..3 in every state of the main sketch, and cylID
\* is in 0..3 after the button handling of every loop() of part_000.
C8_ChimeIndexInRange ==
    /\ current_chime \in 0..3
    /\ cylID \in 0..3

\* part_000 wrapped cylID from 0 down to 3
C8_Witness == prog = "p0" /\ ticks > 0 /\ cylID = 3 /\ prevcylID = 3

\* the ball one physics step (steps 1 to 4) after rest at the centre, with
\* the calibration and the sensor reading of the last tick
FromRest ==
    Constrain(Move(ClampSpeed(Accelerate(
        [Globals EXCEPT !.x = 0, !.y = 0, !.vx = 0, !.vy = 0],
        FSub(inp.ax, cal_ax), FSub(inp.ay, cal_ay)))))

\* C9: at the end of a tick that saw a chime change or a calibration, the
\* ball is where one physics step from rest at the centre puts it, whatever
\* its state before the tick, and no rod was struck.
C9_ButtonResetsBall ==
    prog = "main" /\ ticks > 0 /\ (inp.A \/ inp.B \/ inp.C) =>
        /\ <<ball_x, ball_y, ball_vx, ball_vy>>
               = <<FromRest.x, FromRest.y, FromRest.vx, FromRest.vy>>
        /\ notes_out = <<>>

\* a button tick that found the ball moving away from the centre, and left
\* it moving
C9_Witness ==
    /\ prog = "main"
    /\ ticks > 0
    /\ inp.A \/ inp.B \/ inp.C
    /\ obs.ball_before[1] # 0
    /\ obs.ball_before[3] # 0
    /\ ball_vx # 0

\* the distance from the ball to rod i, as step 5 computes it
RodDistance(i) ==
    FHypot(FSub(ball_x, rod_fx[i]), FSub(ball_y, rod_fy[i]))

\* C10: with the sensor reading equal to the calibration on every tick and
\* no button event, the ball stays at rest at the centre, every rod stays at
\* its distance ROD_ORBIT = 55 (55 or the next float above it, as the rod
\* table was rounded), which is at least HIT_DIST, and no rod is struck.
C10_RestIsFixedPoint ==
    /\ <<ball_x, ball_y, ball_vx, ball_vy>> = <<0, 0, 0, 0>>
    /\ notes_out = <<>>
    /\ obs.near = {}
    /\ \A i \in Rods :
        /\ RodDistance(i) >= HIT_DIST
        /\ RodDistance(i) - FFromInt(ROD_ORBIT) \in 0..1
        /\ rod_last_hit[i] = U32(0)
        /\ rod_glow[i] = 0

\* 100 ticks at rest, with a calibration offset that is not zero
C10_Witness == ticks = RestTicks /\ cal_ax # 0 /\ inp.ax = cal_ax

\* C11 as stated: from rest at the centre under a constant calibrated tilt of
\* (1, 0), rod 6 (on the negative x axis) is eventually struck, no other rod
\* is ever struck, and every velocity sent lies in 0..127.
C11_TiltStrikesRod6 ==
    /\ [](\A h \in Hits : h.rod = 6 /\ h.velocity \in 0..127)
    /\ <>(6 \in Struck(notes_out))

\* C11: from rest at the centre under a constant calibrated tilt of (1, 0),
\* rod 6 is eventually struck, the first strike of the run is of rod 6 alone
\* and no other rod is struck before it, and every velocity sent lies in
\* 0..127.
C11_Rod6StruckFirst ==
    /\ [](\A h \in Hits : h.velocity \in 0..127)
    /\ [][(last_strike[6] = <<>> /\ notes_out' # <<>>)
            => Struck(notes_out') = {6}]_vars
    /\ <>(6 \in Struck(notes_out))

\* rod 6 struck by the ball coming from the centre, which it sends back
C11_Witness ==
    /\ prog = "main"
    /\ inp.ax = FAdd(cal_ax, F1)
    /\ Struck(notes_out) = {6}
    /\ obs.ball_before[3] < 0
    /\ ball_vx > 0

\* the rods of the last tick that were within HIT_DIST and past their
\* debounce window
Qualifying == {i \in obs.near : Debounced(clock, obs.last_before[i])}

\* the strikes of the last tick came in ascending rod order
Ascending == \A j \in 1..Len(notes_out) : \A k \in 1..Len(notes_out) :
                j < k => notes_out[j].rod < notes_out[k].rod

\* the speed rod i's bounce leaves the ball with
BounceSpeed(i) ==
    FHypot(FMul(FDiv(FSub(ball_x, rod_fx[i]), RodDistance(i)), ROD_BOUNCE),
           FMul(FDiv(FSub(ball_y, rod_fy[i]), RodDistance(i)), ROD_BOUNCE))

\* C14 as stated: every qualifying rod fires in the tick, in ascending index
\* order, each with a velocity derived from the speed the tick's physics step
\* produced, whatever a lower-indexed rod's bounce did.
C14_AllFireAtImpactSpeed ==
    prog = "main" =>
        /\ Struck(notes_out) = Qualifying
        /\ Ascending
        /\ \A h \in Hits : /\ h.hit_speed = obs.wall_speed
                            /\ h.velocity = NoteVelocity(obs.wall_speed)

\* C14, what loop() does: every qualifying rod fires in the tick, in
\* ascending index order; the first has the speed the physics step produced,
\* every later one the speed the bounce of the rod struck before it left.
C14_LaterRodsHearBounce ==
    prog = "main" =>
        /\ Struck(notes_out) = Qualifying
        /\ Ascending
        /\ \A k \in 1..Len(notes_out) :
            /\ RodDistance(notes_out[k].rod) > MinBounceDist
            /\ notes_out[k].hit_speed =
                   (IF k = 1 THEN obs.wall_speed
                    ELSE BounceSpeed(notes_out[k - 1].rod))
            /\ notes_out[k].velocity = NoteVelocity(notes_out[k].hit_speed)

\* two rods struck in one tick, the second at the speed of the first's bounce
C14_Witness ==
    /\ prog = "main"
    /\ Len(notes_out) = 2
    /\ notes_out[1].hit_speed > ROD_BOUNCE + 8
    /\ notes_out[2].hit_speed <= ROD_BOUNCE + 8
    /\ notes_out[2].velocity = 40

\* the ticks since rod i's latest strike, the strike tick being number 0,
\* where every tick takes the 20 ms of its delay() and millis() has not
\* wrapped
TicksSince(i) == U32Sub(clock, last_strike[i][2])[2] \div obs.delay

\* the last tick run again with every glow counter at GlowFrames
GlowBlind == loop([Globals EXCEPT !.glow = [i \in Rods |-> GlowFrames]],
                  inp', clock').end

\* C15: a rod's glow counter stays in 0..15; a tick sets it to 15 exactly
\* when the rod strikes and then counts it down by 1 if it is not 0, never
\* below 0; so it is 0 from the 15th tick after the rod's latest strike on
\* (the strike tick being the first); and the ball, the notes and the
\* timestamps of a tick do not depend on the counters.
C15_GlowCounter ==
    [][prog = "main" /\ ticks' = ticks + 1 =>
        /\ \A i \in Rods :
            /\ rod_glow[i] \in 0..GlowFrames
            /\ rod_glow'[i] \in 0..GlowFrames
            /\ i \in Struck(notes_out') => rod_glow'[i] = GlowFrames - 1
            /\ i \notin Struck(notes_out') =>
                   rod_glow'[i] = (IF rod_glow[i] > 0 THEN rod_glow[i] - 1 ELSE 0)
            /\ last_strike'[i] = <<>> => rod_glow'[i] = 0
            /\ last_strike'[i] # <<>> =>
                   rod_glow'[i] = (IF TicksSince(i)' < GlowFrames
                                   THEN GlowFrames - 1 - TicksSince(i)' ELSE 0)
        /\ <<GlowBlind.x, GlowBlind.y, GlowBlind.vx, GlowBlind.vy>>
               = <<ball_x', ball_y', ball_vx', ball_vy'>>
        /\ GlowBlind.notes = notes_out'
        /\ GlowBlind.last = rod_last_hit']_vars

\* a rod whose counter has run out, 14 ticks after the tick that struck it
C15_Witness ==
    /\ prog = "main"
    /\ \E i \in Rods :
        /\ last_strike[i] # <<>>
        /\ TicksSince(i) = GlowFrames - 1
        /\ rod_glow[i] = 0

\* C16 as stated: a struck rod is drawn in the glow colour in 15 consecutive
\* ticks, the strike tick being the first, and then redrawn in the normal
\* colour.
C16_GlowsFifteenFrames ==
    prog = "main" =>
        \A i \in Rods : last_strike[i] # <<>> =>
            /\ TicksSince(i) < GlowFrames => obs.drawn[i] = COL_ROD_GLOW
            /\ TicksSince(i) = GlowFrames => obs.drawn[i] = COL_ROD

\* C16, what loop() does: a struck rod is drawn in the glow colour in 14
\* consecutive ticks, the strike tick being the first, redrawn in the normal
\* colour in the 15th, and not drawn after that.
C16_GlowsFourteenFrames ==
    prog = "main" =>
        \A i \in Rods : last_strike[i] # <<>> =>
            /\ TicksSince(i) < GlowFrames - 1 => obs.drawn[i] = COL_ROD_GLOW
            /\ TicksSince(i) = GlowFrames - 1 => obs.drawn[i] = COL_ROD
            /\ TicksSince(i) > GlowFrames - 1 => obs.drawn[i] = NotDrawn

\* the 15th tick of a strike: the rod is redrawn in the normal colour
C16_Witness ==
    /\ prog = "main"
    /\ \E i \in Rods :
        /\ last_strike[i] # <<>>
        /\ TicksSince(i) = GlowFrames - 1
        /\ obs.drawn[i] = COL_ROD

\* the rod struck last in the last tick
LastRod == notes_out[Len(notes_out)].rod

\* a strike of rod i by the ball as it is, with the rod d away along x, for
\* d = 0 and d = 0.1f
CloseStrike(i, d) == StrikeAt(Globals, i, clock, d, 0, d, BallSpeed)

\* the velocity a tick with a strike ends with is the bounce off the rod
\* struck last, which is more than 0.1 away, and points away from that rod;
\* a strike at a distance of at most 0.1 would set the timestamp and the
\* glow and send the note, and leave the velocity as it is
BounceOffLastRod ==
    /\ notes_out # <<>> =>
        /\ \A h \in Hits : RodDistance(h.rod) > MinBounceDist
        /\ ball_vx = FMul(FDiv(FSub(ball_x, rod_fx[LastRod]),
                               RodDistance(LastRod)), ROD_BOUNCE)
        /\ ball_vy = FMul(FDiv(FSub(ball_y, rod_fy[LastRod]),
                               RodDistance(LastRod)), ROD_BOUNCE)
        /\ FSub(ball_x, rod_fx[LastRod]) > 0 => ball_vx > 0
        /\ FSub(ball_x, rod_fx[LastRod]) < 0 => ball_vx < 0
        /\ FSub(ball_y, rod_fy[LastRod]) > 0 => ball_vy > 0
        /\ FSub(ball_y, rod_fy[LastRod]) < 0 => ball_vy < 0
    /\ \A i \in Rods : \A d \in {0, MinBounceDist} :
        LET r == CloseStrike(i, d)
        IN  /\ <<r.vx, r.vy>> = <<ball_vx, ball_vy>>
            /\ r.last[i] = clock
            /\ r.glow[i] = GlowFrames
            /\ Len(r.notes) = 1
            /\ r.notes[1].rod = i

\* C17 as stated: after a strike at a distance above 0.1 the velocity is
\* ROD_BOUNCE * (ball - rod) / d and the speed is exactly ROD_BOUNCE = 2.0; a
\* strike at a distance of at most 0.1 leaves the velocity unchanged.
C17_BounceSpeedExact ==
    prog = "main" =>
        /\ BounceOffLastRod
        /\ notes_out # <<>> => BallSpeed = ROD_BOUNCE

\* C17: as stated, but the speed after the strike is ROD_BOUNCE up to the
\* rounding of the float division and product: within 8 units in the last
\* place of 2.0.
C17_BounceSpeed ==
    prog = "main" =>
        /\ BounceOffLastRod
        /\ notes_out # <<>> => BallSpeed - ROD_BOUNCE \in -8..8

\* a strike of a rod the ball was flying at, which turns it round
C17_Witness ==
    /\ prog = "main"
    /\ notes_out # <<>>
    /\ obs.wall_speed > ROD_BOUNCE + 8
    /\ FSub(ball_x, rod_fx[LastRod]) < 0
    /\ obs.ball_before[3] > 0
    /\ ball_vx < 0
    /\ BallSpeed # ROD_BOUNCE

\* the wall step of the last tick: the distance after the move, the normal,
\* the radial components of the velocity before and after the bounce, and the
\* distance the tick started from
MovedDist == FHypot(obs.moved_x, obs.moved_y)
WallNx == FDiv(obs.moved_x, MovedDist)
WallNy == FDiv(obs.moved_y, MovedDist)
PreDot == FAdd(FMul(obs.clamp_vx, WallNx), FMul(obs.clamp_vy, WallNy))
PostDot == FAdd(FMul(obs.wall_vx, WallNx), FMul(obs.wall_vy, WallNy))
PrevDist == FHypot(obs.ball_before[1], obs.ball_before[2])

\* the wall triggers exactly when the moved ball is beyond max_dist, and
\* then puts the ball at normal * max_dist
WallProjects ==
    /\ ticks > 0 => (obs.wall_hit <=> MovedDist > max_dist)
    /\ obs.wall_hit => /\ obs.wall_x = FMul(WallNx, max_dist)
                       /\ obs.wall_y = FMul(WallNy, max_dist)

\* C18 as stated: when the wall triggers the ball is put exactly on the
\* circle of radius max_dist, the speed after the bounce is exactly half the
\* speed before it, and the velocity's radial component is inward after it,
\* having been outward before.
C18_WallBounceExact ==
    prog = "main" =>
        /\ WallProjects
        /\ obs.wall_hit =>
            /\ FHypot(obs.wall_x, obs.wall_y) = max_dist
            /\ obs.wall_speed = FMul(obs.clamp_speed, WallLoss)
            /\ PreDot > 0
            /\ PostDot <= 0

\* 0.0625f: a speed, in pixels a pass, far above the rounding of the ball's
\* coordinates (4e-6 at the wall)
SureSpeed == 123 * TwoP23

\* C18: when the wall triggers the ball is put on the circle of radius
\* max_dist along its direction from the centre, and the speed after the
\* bounce is half the speed before it, both up to float rounding (8 units in
\* the last place); if the ball came at a speed of 0.0625 or more, the
\* velocity's radial component was outward before the bounce and is inward
\* after it.
C18_WallBounce ==
    prog = "main" =>
        /\ WallProjects
        /\ obs.wall_hit =>
            /\ FHypot(obs.wall_x, obs.wall_y) - max_dist \in -8..8
            /\ obs.wall_speed - FMul(obs.clamp_speed, WallLoss) \in -8..8
            /\ obs.clamp_speed >= SureSpeed => PreDot > 0 /\ PostDot <= 0

\* a wall bounce of a ball that the last bounce had left beyond max_dist,
\* which turned it inward at not exactly half its speed
C18_Witness ==
    /\ prog = "main"
    /\ obs.wall_hit
    /\ PrevDist > max_dist
    /\ obs.clamp_speed >= SureSpeed
    /\ PreDot > 0
    /\ PostDot < 0
    /\ obs.wall_speed # FMul(obs.clamp_speed, WallLoss)

\* the last loop() switched the chime variant: BtnA or BtnC, and no
\* calibration
Switched(in) == (in.A \/ in.C) /\ ~in.B

\* the rod positions of setup()
RodsWhereSetupPutThem ==
    /\ rod_fx = [i \in Rods |-> RodFx[i + 1]]
    /\ rod_fy = [i \in Rods |-> RodFy[i + 1]]
    /\ rod_px = [i \in Rods |-> CX + FTrunc(RodFx[i + 1])]
    /\ rod_py = [i \in Rods |-> CY + FTrunc(RodFy[i + 1])]

\* C19: a press of BtnA or BtnC (with no calibration in the same loop())
\* leaves every rod's glow counter and debounce timestamp as they were when
\* its handler returns, and the timestamps and the calibration offset are
\* still the same at the end of that loop(), whose drawUpdate() counts the
\* glow down as in any other loop(); the ball restarts from rest in the
\* centre, so that it ends that loop() one velocity step away from it and
\* strikes no rod; no loop() moves a rod from where setup() put it.
C19_SwitchLeavesRods ==
    [][prog = "main" =>
        /\ rod_fx' = rod_fx /\ rod_fy' = rod_fy
        /\ rod_px' = rod_px /\ rod_py' = rod_py
        /\ RodsWhereSetupPutThem'
        /\ (ticks' = ticks + 1 /\ Switched(inp')) =>
            /\ obs'.btn_glow = rod_glow
            /\ obs'.btn_last = rod_last_hit
            /\ rod_last_hit' = rod_last_hit
            /\ rod_glow' = [i \in Rods |-> IF rod_glow[i] > 0
                                            THEN rod_glow[i] - 1 ELSE 0]
            /\ cal_ax' = cal_ax /\ cal_ay' = cal_ay
            /\ ball_x' = ball_vx' /\ ball_y' = ball_vy'
            /\ notes_out' = <<>>]_vars

\* the variant was switched while a rod struck before was still glowing
C19_Witness ==
    /\ prog = "main"
    /\ Switched(inp)
    /\ current_chime # obs.chime_before
    /\ \E i \in Rods : /\ obs.btn_glow[i] > 0
                        /\ rod_glow[i] = obs.btn_glow[i] - 1
                        /\ rod_last_hit[i] # U32(0)
                        /\ obs.btn_last[i] = rod_last_hit[i]

----------------------------------------------------------------------------
(* properties of part_000 *)

\* C12 as stated: a loop() that sees only BtnC pressed steps cylID to the
\* next variant, one that sees only BtnA pressed steps it to the previous
\* variant, and one that sees neither leaves it unchanged.
C12_ButtonsSelect ==
    [][prog = "p0" =>
        /\ inp'.C /\ ~inp'.A => cylID' = (cylID + 1) % 4
        /\ inp'.A /\ ~inp'.C => cylID' = (cylID + 3) % 4
        /\ ~inp'.A /\ ~inp'.C => cylID' = cylID]_vars

\* C12, what loop() does: it steps cylID forward when BtnC is not pressed and
\* back when BtnA is not pressed, so that BtnC alone steps it back, BtnA alone
\* steps it forward, and both or neither leave it unchanged.
C12_ButtonsInverted ==
    [][prog = "p0" =>
        cylID' = (cylID + (IF inp'.C THEN 0 ELSE 1)
                        + (IF inp'.A THEN 0 ELSE 3)) % 4]_vars

\* the first loop() saw only BtnC pressed, and cylID went from 0 to 3
C12_Witness ==
    /\ prog = "p0"
    /\ ticks = 1
    /\ inp.C /\ ~inp.A
    /\ cylID = 3

\* the pitches of part_000
P0Pitches == {notes[c][d] : c \in 1..4, d \in 1..8}

\* the calls synth.setNoteOn / synth.setNoteOff of the last loop() for pitch n
NoteOnSent(n) == \E k \in 1..Len(notes_out) :
                    notes_out[k].kind = "on" /\ notes_out[k].note = n
NoteOffSent(n) == \E k \in 1..Len(notes_out) :
                    notes_out[k].kind = "off" /\ notes_out[k].note = n

\* C13 as stated: every note-on of part_000 is eventually followed by a
\* note-off for its pitch, as long as loop() keeps running.
C13_NoStuckNote ==
    \A n \in P0Pitches : (prog = "p0" /\ NoteOnSent(n)) ~> NoteOffSent(n)

\* a note-on sent while all ten slots hold notes that have not expired: the
\* table keeps no entry for it
C13_Witness ==
    /\ prog = "p0"
    /\ \E n \in P0Pitches :
        /\ NoteOnSent(n)
        /\ \A i \in Slots : /\ activeNotes[i].note # -1
                             /\ activeNotes[i].note # n
                             /\ activeNotes[i].startTime # clock

\* a slot that holds a note, and for how many ms of millis() at the reading now
Occupied(slot) == slot.note # -1
SlotAge(slot, now) ==
    LET age == U32Sub(now, slot.startTime) IN age[1] * TwoP16 + age[2]

\* the calls synth.setNoteOn and synth.setNoteOff of a loop(), in order
OnsOf(out) == SelectSeq(out, LAMBDA m : m.kind = "on")
OffsOf(out) == SelectSeq(out, LAMBDA m : m.kind = "off")

\* the k-th smallest member of a set of slots
NthSlot(S, k) == CHOOSE i \in S : Cardinality({j \in S : j < i}) = k - 1

\* the slots of the table that are due when millis() reads now
DueSlots(active, now) ==
    {i \in Slots : Occupied(active[i]) /\ SlotAge(active[i], now) >= noteDuration}
FreeSlots(active) == {i \in Slots : ~Occupied(active[i])}

\* every slot is free, or holds a pitch of the note table started less than
\* noteDuration ago
TableShape ==
    \A i \in Slots :
        \/ activeNotes[i] = FreeSlot
        \/ /\ activeNotes[i].note \in P0Pitches
           /\ SlotAge(activeNotes[i], clock) < noteDuration

\* what a loop() does to the table: the note-offs are those of the due slots,
\* in slot order, and these slots are freed; the other occupied slots stay as
\* they are; a free slot is taken only by the note-on of this loop(), and that
\* is the first free one
TableStep(due, free, ons, offs) ==
    /\ Len(offs) = Cardinality(due)
    /\ \A k \in 1..Len(offs) : offs[k].note = activeNotes[NthSlot(due, k)].note
    /\ \A i \in due : activeNotes'[i] = FreeSlot
    /\ \A i \in Slots \ (due \cup free) : activeNotes'[i] = activeNotes[i]
    /\ Len(ons) <= 1
    /\ \A i \in free :
         \/ activeNotes'[i] = FreeSlot
         \/ /\ ons # <<>>
            /\ \A j \in free : i <= j
            /\ activeNotes'[i] = [note |-> ons[1].note, startTime |-> clock']
    /\ (ons # <<>> /\ free # {}) => \E i \in free : Occupied(activeNotes'[i])

\* C20: in part_000 every slot of the active-note table is free or holds one
\* note that was started less than 1000 ms ago; a loop() sends setNoteOff
\* exactly for the occupied slots whose note is 1000 ms old or older and frees
\* them, leaves every other occupied slot as it is, and puts a new note only
\* into a free slot; every occupied slot is freed in the end, so that a note
\* with a slot gets one note-off, not before 1000 ms.
C20_TableConsistent ==
    /\ [](prog = "p0" => TableShape)
    /\ [][prog = "p0" =>
            TableStep(DueSlots(activeNotes, clock'), FreeSlots(activeNotes),
                      OnsOf(notes_out'), OffsOf(notes_out'))]_vars
    /\ \A i \in Slots : (prog = "p0" /\ Occupied(activeNotes[i]))
                            ~> ~Occupied(activeNotes[i])

\* a loop() that sent a note-on with the table full, and the note-off of slot
\* 0, which it freed, the nine other notes staying where they are
C20_Witness ==
    /\ prog = "p0"
    /\ OnsOf(notes_out) # <<>>
    /\ Len(OffsOf(notes_out)) = 1
    /\ activeNotes[0] = FreeSlot
    /\ \A i \in Slots \ {0} : /\ Occupied(activeNotes[i])
                               /\ activeNotes[i].startTime # clock

----------------------------------------------------------------------------
(* properties of part_001 *)

\* the step is a loop() of part_001 that sends a note-on
P1NoteOn == ticks' = ticks + 1 /\ notes_out' # <<>>

\* C21: in part_001 a loop() sends at most one note-on, and only with
\* volume > 10, more than minNoteInterval (200 ms) after the note-on before
\* it, if there is one, and with another pitch than that one; lastNoteTime
\* and lastnote change only in a loop() that sends a note-on, to its millis()
\* reading and its pitch.
C21_RateLimited ==
    [][prog = "p1" =>
        /\ P1NoteOn =>
            /\ Len(notes_out') = 1
            /\ notes_out'[1].kind = "on"
            /\ notes_out'[1].note = p1_notes[p1_seen'.direction + 1]
            /\ notes_out'[1].velocity = p1_seen'.volume
            /\ p1_seen'.volume > 10
            /\ U32GtSmall(U32Sub(clock', lastNoteTime), minNoteInterval)
            /\ notes_out'[1].note # lastnote
            /\ last_on # <<>> =>
                /\ ElapsedOver(<<last_on[1], last_on[2]>>, <<epoch', clock'>>,
                               minNoteInterval)
                /\ notes_out'[1].note # last_on[3]
        /\ (lastNoteTime' # lastNoteTime \/ lastnote' # lastnote) =>
            /\ P1NoteOn
            /\ lastNoteTime' = clock'
            /\ lastnote' = notes_out'[1].note]_vars

\* a second or later note-on, sent after millis() has wrapped around
C21_Witness ==
    /\ prog = "p1"
    /\ notes_out # <<>>
    /\ last_on # <<>>
    /\ last_on[4] >= 2
    /\ epoch = 1
    /\ lastNoteTime = clock
    /\ lastnote = notes_out[1].note

\* the last loop() of part_001 sent a note-on, and so called getNoteName()
P1Named == prog = "p1" /\ notes_out # <<>>

\* C22 as stated: in part_001 the direction index is in 0..7, and
\* getNoteName() reads noteNames within its bounds for every pitch played:
\* the index midiNote % 12 is in 0..7.
C22_NameIndexInBounds ==
    /\ prog = "p1" => p1_seen.direction \in 0..7
    /\ P1Named => /\ shown.index \in 0..(Len(noteNames) - 1)
                  /\ ~shown.fault

\* C22, what loop() does: the direction index is in 0..7 and selects the
\* pitch; getNoteName() reads noteNames[pitch % 12], which is within the
\* array for every pitch but B4 (index 11); within the array it returns that
\* entry and the octave, past it whatever lies there, or it faults.
C22_ReadsPastNamesAtB4 ==
    /\ prog = "p1" => p1_seen.direction \in 0..7
    /\ P1Named =>
        /\ notes_out[1].note = p1_notes[p1_seen.direction + 1]
        /\ shown.index = notes_out[1].note % 12
        /\ shown.octave = notes_out[1].note \div 12 - 1
        /\ shown.index < Len(noteNames) <=> notes_out[1].note # NOTE_B4
        /\ shown.index < Len(noteNames) =>
            /\ ~shown.fault
            /\ shown.text = noteNames[shown.index + 1]
        /\ shown.index >= Len(noteNames) =>
            shown.fault \/ shown.text \in StrayTexts

\* B4 played with the device tilted towards 180 degrees: getNoteName() read
\* noteNames[11] and faulted
C22_Witness ==
    /\ P1Named
    /\ p1_seen.direction = 4
    /\ notes_out[1].note = NOTE_B4
    /\ shown.index = 11
    /\ shown.fault

====
